---- MODULE Spec2Model ----
(***************************************************************************)
(* Soccer-DB: the incremental upsert of a production table                 *)
(* (clean/fbref_clean.py), the upload of a cleaned batch to the SQLite     *)
(* store with its constraint check (upload/upload.py) and the workflow     *)
(* controller that runs one step per entity (main.py).                     *)
(*                                                                         *)
(* A DataFrame is a sequence of rows, a row a record whose fields are the  *)
(* column names.  A missing value (NaN / None in a column) is NULL.        *)
(***************************************************************************)
EXTENDS Integers, Sequences, FiniteSets, TLC

\* ------------------------------------------------------------------ bounds
MaxKey == 2        \* primary / foreign key values are 1..MaxKey
MaxVal == 2        \* values of a data column are 1..MaxVal
MaxRows == 2       \* rows of a table handed to update_table
MaxBatch == 1      \* rows of a cleaned batch in a workflow step
MaxSteps == 2      \* entity steps run before the workflow is interrupted
MaxFaults == 1     \* operations that fail, or are declined, in one run
MaxRuns == 2       \* times run_workflow is run for the same update_id
MaxStatRows == 2   \* rows, and distinct keys, of the primary stat table
MaxItems == 2      \* matches of a raw batch of player match stats
MaxDict == 2       \* team league seasons (keys) of a raw ptls dictionary
MaxPids == 1       \* player ids listed under one key of that dictionary

NULL == 0          \* NaN / None inside a column

Keys == 1..MaxKey
Vals == 1..MaxVal

\* ------------------------------------------------------- DataFrame helpers
\* Python None returned in place of a DataFrame
None == [isNone |-> TRUE, rows |-> <<>>]

DataFrame(rows) == [isNone |-> FALSE, rows |-> rows]

\* df[col] as a list
column(rows, col) == [i \in 1..Len(rows) |-> rows[i][col]]

\* Series.isin(values): membership in a list (NaN matches NaN)
isin(x, values) == \E i \in 1..Len(values) : values[i] = x

\* DataFrame.dropna(subset=[col])
dropna(rows, col) == SelectSeq(rows, LAMBDA r : r[col] # NULL)

\* the mutant keeps the LAST row of every key
drop_duplicates_last(rows, col) ==
    LET keep(i) == \A j \in (i+1)..Len(rows) : rows[j][col] # rows[i][col]
        build[i \in 1..(Len(rows)+1)] ==
            IF i > Len(rows) THEN <<>>
            ELSE (IF keep(i) THEN <<rows[i]>> ELSE <<>>) \o build[i+1]
    IN build[1]

\* DataFrame.drop_duplicates(subset=[col]): keep='first' is the default
drop_duplicates(rows, col) ==
    LET keep(i) == \A j \in 1..(i-1) : rows[j][col] # rows[i][col]
        build[i \in 1..(Len(rows)+1)] ==
            IF i > Len(rows) THEN <<>>
            ELSE (IF keep(i) THEN <<rows[i]>> ELSE <<>>) \o build[i+1]
    IN build[1]

\* pd.concat([a, b], axis=0): a None object is dropped silently
concat(table, df) == IF df.isNone THEN table ELSE table \o df.rows

\* ------------------------------------------------ FbrefClean.update_table
\* the mutant leaves the overlapping production rows in place
update_table_keep(db_table, new_cleaned_data, replace_vals, primary_key) ==
    IF replace_vals /\ new_cleaned_data.isNone
    THEN [raised |-> TRUE, rows |-> <<>>]
    ELSE [raised |-> FALSE,
          rows |-> drop_duplicates(
                     dropna(concat(db_table, new_cleaned_data), primary_key),
                     primary_key)]

\* the mutant forgets dropna
update_table_nodropna(db_table, new_cleaned_data, replace_vals, primary_key) ==
    IF replace_vals /\ new_cleaned_data.isNone
    THEN [raised |-> TRUE, rows |-> <<>>]
    ELSE LET table == IF replace_vals
                      THEN SelectSeq(db_table, LAMBDA r :
                             ~isin(r[primary_key],
                                   column(new_cleaned_data.rows, primary_key)))
                      ELSE db_table
         IN [raised |-> FALSE,
             rows |-> drop_duplicates(concat(table, new_cleaned_data),
                                      primary_key)]

\* the mutant concatenates the new rows first
update_table_newfirst(db_table, new_cleaned_data, replace_vals, primary_key) ==
    IF new_cleaned_data.isNone
    THEN [raised |-> replace_vals,
          rows |-> IF replace_vals THEN <<>>
                   ELSE drop_duplicates(dropna(db_table, primary_key), primary_key)]
    ELSE LET table == IF replace_vals
                      THEN SelectSeq(db_table, LAMBDA r :
                             ~isin(r[primary_key],
                                   column(new_cleaned_data.rows, primary_key)))
                      ELSE db_table
         IN [raised |-> FALSE,
             rows |-> drop_duplicates(
                        dropna(new_cleaned_data.rows \o table, primary_key),
                        primary_key)]

\* the mutant merges with keep='last'
update_table_last(db_table, new_cleaned_data, replace_vals, primary_key) ==
    IF replace_vals /\ new_cleaned_data.isNone
    THEN [raised |-> TRUE, rows |-> <<>>]
    ELSE LET table == IF replace_vals
                      THEN SelectSeq(db_table, LAMBDA r :
                             ~isin(r[primary_key],
                                   column(new_cleaned_data.rows, primary_key)))
                      ELSE db_table
         IN [raised |-> FALSE,
             rows |-> drop_duplicates_last(
                        dropna(concat(table, new_cleaned_data), primary_key),
                        primary_key)]

\* the mutant forgets drop_duplicates
update_table_nodedup(db_table, new_cleaned_data, replace_vals, primary_key) ==
    IF replace_vals /\ new_cleaned_data.isNone
    THEN [raised |-> TRUE, rows |-> <<>>]
    ELSE LET table == IF replace_vals
                      THEN SelectSeq(db_table, LAMBDA r :
                             ~isin(r[primary_key],
                                   column(new_cleaned_data.rows, primary_key)))
                      ELSE db_table
         IN [raised |-> FALSE,
             rows |-> dropna(concat(table, new_cleaned_data), primary_key)]

\* update_table(new_cleaned_data, replace_vals) on self.db_table.  With
\* replace_vals the subscript new_cleaned_data[primary_key] raises TypeError
\* when the batch is None.
update_table(db_table, new_cleaned_data, replace_vals, primary_key) ==
    IF replace_vals /\ new_cleaned_data.isNone
    THEN [raised |-> TRUE, rows |-> <<>>]
    ELSE LET table == IF replace_vals
                      THEN SelectSeq(db_table, LAMBDA r :
                             ~isin(r[primary_key],
                                   column(new_cleaned_data.rows, primary_key)))
                      ELSE db_table
         IN [raised |-> FALSE,
             rows |-> drop_duplicates(
                        dropna(concat(table, new_cleaned_data), primary_key),
                        primary_key)]

\* ------------------------------------------------------- workflow constants
\* the mutant lists teams before tls
steps_swapped == <<"seasons", "ls", "teams", "tls", "ptls", "players", "matches",
                   "team_matches", "player_matches", "keeper_matches">>

\* SoccerDBWorkflowController.steps: the names, in list order
steps == <<"seasons", "ls", "tls", "teams", "ptls", "players", "matches",
           "team_matches", "player_matches", "keeper_matches">>

StepNames == {steps[i] : i \in 1..Len(steps)}

\* the entities of db_dict.json: the steps and the leagues table
Entities == StepNames \cup {"leagues"}

\* primary_key_config.json, and self.primary_key of every cleaner
name_to_primary(name) ==
    CASE name = "seasons" -> "season"
      [] name = "leagues" -> "lg_id"
      [] name = "ls" -> "ls_id"
      [] name = "tls" -> "tls_id"
      [] name = "teams" -> "tid"
      [] name = "ptls" -> "ptls_id"
      [] name = "players" -> "pid"
      [] name = "matches" -> "match_id"
      [] name = "team_matches" -> "team_match"
      [] name = "player_matches" -> "player_match"
      [] name = "keeper_matches" -> "keeper_match"

\* the dates main.py passes to the steps, and the date of the last update
last_date == "2024-07-01"
new_match_reference_date == "2024-07-01"
old_match_reference_date == "2024-04-30"

\* the last_date argument of clean_save_update_data in update_<name>
step_date(name) ==
    IF name \in {"matches", "team_matches", "player_matches", "keeper_matches"}
    THEN new_match_reference_date ELSE last_date

\* what clean_data of each cleaner can do: return a DataFrame ("df"), catch
\* its own error and return None ("None"), or raise ("raise").  The league
\* seasons cleaner declares clean_data(update_id, new_match_reference_date)
\* and is called with update_id only, so it always raises TypeError.
clean_outcomes(name) ==
    CASE name = "ls" -> {"raise"}
      [] name \in {"seasons", "ptls"} -> {"raise", "df"}
      [] OTHER -> {"None", "df"}

\* ------------------------------------------------ create-table queries
\* A text (a Python str) is a sequence of characters.  The words the
\* queries are written with:
Words ==
    {"CREATE", "TABLE", "INT", "PRIMARY", "KEY", "FOREIGN",
     "REFERENCES", "seasons", "leagues", "ls", "tls", "teams", "ptls",
     "players", "matches", "team_matches", "player_matches",
     "keeper_matches", "season", "lg_id", "ls_id", "tls_id", "tid",
     "ptls_id", "pid", "match_id", "team_match", "player_match",
     "keeper_match", "home_team_id"}

\* the characters of a word; a lexeme that is no word is one character
spell(word) ==
    CASE word = "CREATE" -> <<"C", "R", "E", "A", "T", "E">>
      [] word = "TABLE" -> <<"T", "A", "B", "L", "E">>
      [] word = "INT" -> <<"I", "N", "T">>
      [] word = "PRIMARY" -> <<"P", "R", "I", "M", "A", "R", "Y">>
      [] word = "KEY" -> <<"K", "E", "Y">>
      [] word = "FOREIGN" -> <<"F", "O", "R", "E", "I", "G", "N">>
      [] word = "REFERENCES" -> <<"R", "E", "F", "E", "R", "E", "N", "C", "E", "S">>
      [] word = "seasons" -> <<"s", "e", "a", "s", "o", "n", "s">>
      [] word = "leagues" -> <<"l", "e", "a", "g", "u", "e", "s">>
      [] word = "ls" -> <<"l", "s">>
      [] word = "tls" -> <<"t", "l", "s">>
      [] word = "teams" -> <<"t", "e", "a", "m", "s">>
      [] word = "ptls" -> <<"p", "t", "l", "s">>
      [] word = "players" -> <<"p", "l", "a", "y", "e", "r", "s">>
      [] word = "matches" -> <<"m", "a", "t", "c", "h", "e", "s">>
      [] word = "team_matches" -> <<"t", "e", "a", "m", "_", "m", "a", "t", "c", "h", "e", "s">>
      [] word = "player_matches" -> <<"p", "l", "a", "y", "e", "r", "_", "m", "a", "t", "c", "h", "e", "s">>
      [] word = "keeper_matches" -> <<"k", "e", "e", "p", "e", "r", "_", "m", "a", "t", "c", "h", "e", "s">>
      [] word = "season" -> <<"s", "e", "a", "s", "o", "n">>
      [] word = "lg_id" -> <<"l", "g", "_", "i", "d">>
      [] word = "ls_id" -> <<"l", "s", "_", "i", "d">>
      [] word = "tls_id" -> <<"t", "l", "s", "_", "i", "d">>
      [] word = "tid" -> <<"t", "i", "d">>
      [] word = "ptls_id" -> <<"p", "t", "l", "s", "_", "i", "d">>
      [] word = "pid" -> <<"p", "i", "d">>
      [] word = "match_id" -> <<"m", "a", "t", "c", "h", "_", "i", "d">>
      [] word = "team_match" -> <<"t", "e", "a", "m", "_", "m", "a", "t", "c", "h">>
      [] word = "player_match" -> <<"p", "l", "a", "y", "e", "r", "_", "m", "a", "t", "c", "h">>
      [] word = "keeper_match" -> <<"k", "e", "e", "p", "e", "r", "_", "m", "a", "t", "c", "h">>
      [] word = "home_team_id" -> <<"h", "o", "m", "e", "_", "t", "e", "a", "m", "_", "i", "d">>
      [] OTHER -> <<word>>

\* the text made of the given lexemes
text(lexemes) ==
    LET cat[i \in 0..Len(lexemes)] ==
            IF i = 0 THEN <<>> ELSE cat[i-1] \o spell(lexemes[i])
    IN cat[Len(lexemes)]

\* the word a text spells (a column name, to index a row with)
word_of(chars) == CHOOSE w \in Words : spell(w) = chars

\* The foreign key each entity's query declares: <<column, referenced
\* table, referenced column>>.  The query files are configuration, not
\* code: these declarations are the input the model runs on.
ForeignKeyDecl ==
    [n \in Entities |->
        CASE n = "ls" -> <<"season", "seasons", "season">>
          [] n = "tls" -> <<"tid", "teams", "tid">>
          [] n = "ptls" -> <<"pid", "players", "pid">>
          [] n = "matches" -> <<"home_team_id", "teams", "tid">>
          [] n = "team_matches" -> <<"match_id", "matches", "match_id">>
          [] n = "player_matches" -> <<"match_id", "matches", "match_id">>
          [] n = "keeper_matches" -> <<"player_match", "player_matches", "player_match">>
          [] OTHER -> <<>>]

\* the lines of config/create_table_queries/create_<name>_table.txt as
\* f.readlines() returns them
make_create_table_queries_dict ==
    [n \in Entities |->
        LET fk == ForeignKeyDecl[n]
        IN  << text(<<"CREATE", " ", "TABLE", " ", n, " ", "(", "\n">>),
               text(<<name_to_primary(n), " ", "INT", " ", "PRIMARY", " ", "KEY",
                      ",", "\n">>) >>
            \o (IF fk = <<>> THEN <<>>
                ELSE << text(<<fk[1], " ", "INT", ",", "\n">>),
                        text(<<"FOREIGN", " ", "KEY", " ", "(", fk[1], ")", " ",
                               "REFERENCES", " ", fk[2], "(", fk[3], ")", "\n">>) >>)
            \o << text(<<")", ";">>) >>]

\* the columns of an entity's DataFrames
columns(name) ==
    {name_to_primary(name)} \cup
    (IF ForeignKeyDecl[name] = <<>> THEN {} ELSE {ForeignKeyDecl[name][1]})

\* "".join(lines)
join(lines) ==
    LET cat[i \in 0..Len(lines)] == IF i = 0 THEN <<>> ELSE cat[i-1] \o lines[i]
    IN cat[Len(lines)]

\* pattern in text
contains(string, pattern) ==
    \E i \in 1..(Len(string) - Len(pattern) + 1) :
        SubSeq(string, i, i + Len(pattern) - 1) = pattern

\* iterating a str yields its characters, each a str of length one
iterate(string) == [i \in 1..Len(string) |-> <<string[i]>>]

\* UploadSoccerDB.set_create_table_query
create_table_query(name) == join(make_create_table_queries_dict[name])

\* re.findall(r"FOREIGN\sKEY\s\((.+)\)\sREFERENCES", query_line)[0]: what
\* stands between "FOREIGN KEY (" and the last ") REFERENCES"
findall_foreign_key(query_line) ==
    LET prefix == text(<<"FOREIGN", " ", "KEY", " ", "(">>)
        suffix == text(<<")", " ", "REFERENCES">>)
        i == CHOOSE k \in 1..Len(query_line) :
                 /\ k + Len(prefix) - 1 <= Len(query_line)
                 /\ SubSeq(query_line, k, k + Len(prefix) - 1) = prefix
        closes == {k \in (i + Len(prefix) + 1)..(Len(query_line) - Len(suffix) + 1) :
                     SubSeq(query_line, k, k + Len(suffix) - 1) = suffix}
        j == CHOOSE k \in closes : \A m \in closes : m <= k
    IN  word_of(SubSeq(query_line, i + Len(prefix), j - 1))

\* query_line.strip().split(" ")[0]: the text up to the first blank
first_word(query_line) ==
    LET blank(c) == c \in {" ", "\n"}
        from == IF \E k \in 1..Len(query_line) : ~blank(query_line[k])
                THEN CHOOSE k \in 1..Len(query_line) :
                         /\ ~blank(query_line[k])
                         /\ \A m \in 1..(k-1) : blank(query_line[m])
                ELSE Len(query_line) + 1
        stops == {k \in from..Len(query_line) : blank(query_line[k])}
        to == IF stops = {} THEN Len(query_line)
              ELSE (CHOOSE k \in stops : \A m \in stops : k <= m) - 1
    IN  SubSeq(query_line, from, to)

\* UploadSoccerDB.get_foreign_keys_from_query: the loop runs over
\* self.create_table_query, which is the joined string
get_foreign_keys_from_query(name) ==
    LET hits == SelectSeq(iterate(create_table_query(name)),
                          LAMBDA query_line :
                              contains(query_line, text(<<"FOREIGN", " ", "KEY">>)))
    IN  [i \in 1..Len(hits) |-> findall_foreign_key(hits[i])]

\* UploadSoccerDB.get_int_columns_from_query: the same loop over the string
get_int_columns_from_query(name) ==
    LET hits == SelectSeq(iterate(create_table_query(name)),
                          LAMBDA query_line : contains(query_line, text(<<"INT">>)))
    IN  [i \in 1..Len(hits) |-> first_word(hits[i])]

\* UploadSoccerDB.check_foreign_key_constraint: the index is looked up under
\* the COLUMN name; a name that is no entry raises KeyError
check_foreign_key_constraint(rows, foreign_key, dict) ==
    IF foreign_key \notin DOMAIN dict
    THEN [raised |-> TRUE, rows |-> <<>>]
    ELSE [raised |-> FALSE,
          rows |-> SelectSeq(rows, LAMBDA r : isin(r[foreign_key], dict[foreign_key].ids))]

\* UploadSoccerDB.convert_to_int: pd.to_numeric(...).astype('Int64') leaves
\* an integer as it is
convert_to_int(rows, int_cols) == rows

\* UploadSoccerDB.check_table_constraints, given the rows load_table returned
check_table_constraints(rows, name, db_rows, dict) ==
    LET pk == name_to_primary(name)
        fresh == IF Len(db_rows) # 0
                 THEN SelectSeq(rows, LAMBDA r : ~isin(r[pk], column(db_rows, pk)))
                 ELSE rows
        foreign_keys == get_foreign_keys_from_query(name)
        checked[i \in 0..Len(foreign_keys)] ==
            IF i = 0 THEN [raised |-> FALSE, rows |-> fresh]
            ELSE IF checked[i-1].raised THEN checked[i-1]
            ELSE check_foreign_key_constraint(checked[i-1].rows, foreign_keys[i], dict)
        out == checked[Len(foreign_keys)]
    IN  IF out.raised THEN out
        ELSE [raised |-> FALSE,
              rows |-> convert_to_int(out.rows, get_int_columns_from_query(name))]

\* ------------------------------------------- match stats reconciliation
\* FbrefCleanPlayerMatches.stats, the first one the primary stat; of the
\* five other stat tables of the source list two are kept, which makes the
\* loop of outer merges run
stats == <<"summary", "passing", "defense">>

primary_stat == stats[1]

\* column_map.json of the entity: the columns of every cleaned stat table,
\* the columns of the primary table to review, and the output columns.  The
\* file is configuration: this column map is the input the model runs on.
column_map ==
    [summary |-> [all_cols |-> {"player_match", "minutes"},
                  review_cols |-> <<"minutes">>],
     passing |-> [all_cols |-> {"player_match", "minutes"},
                  review_cols |-> <<>>],
     defense |-> [all_cols |-> {"player_match", "tackles"},
                  review_cols |-> <<>>],
     all_cols |-> {"player_match", "minutes", "tackles"}]

\* FbrefCleanMatchStats.stats of the team matches cleaner, which set_stats
\* takes from the keys of its column map: the primary stat and one other
team_stats == <<"schedule", "shooting">>

\* column_map.json of team_matches.  The primary table has two columns to
\* review, of which the first one, poss, is in no other stat table.  The
\* file is configuration: this column map is the input the model runs on.
team_column_map ==
    [schedule |-> [all_cols |-> {"team_match", "poss", "xg"},
                   review_cols |-> <<"poss", "xg">>],
     shooting |-> [all_cols |-> {"team_match", "xg"},
                   review_cols |-> <<>>],
     all_cols |-> {"team_match", "poss", "xg"}]

\* the attributes of the FbrefCleanMatchStats object of an entity that
\* concat_clean_save_all_match_stats reads
FbrefCleanMatchStats(n) ==
    IF n = "team_matches"
    THEN [primary_key |-> name_to_primary(n), stats |-> team_stats,
          primary_stat |-> team_stats[1], column_map |-> team_column_map]
    ELSE [primary_key |-> name_to_primary("player_matches"), stats |-> stats,
          primary_stat |-> primary_stat, column_map |-> column_map]

\* sorted(keys): the values of a key column in ascending order, NaN last
sorted_keys(values) ==
    LET before(a, b) == a # NULL /\ (b = NULL \/ a < b)
        n == Cardinality(values)
    IN  CHOOSE order \in [1..n -> values] :
            \A i, j \in 1..n : i < j => before(order[i], order[j])

\* a row of the merged table made of a left and a right row, either of
\* which can be missing (its columns are NaN then)
merged_row(l, r, lcols, rcols, on, key) ==
    [c \in lcols \cup rcols |->
        IF c = on THEN key
        ELSE IF c \in lcols THEN (IF l = <<>> THEN NULL ELSE l[1][c])
        ELSE (IF r = <<>> THEN NULL ELSE r[1][c])]

\* the rows left x right of one key value, left-major; a side without row of
\* that key contributes one missing row when outer is set for it
key_block(L, R, lcols, rcols, on, key, outer_left, outer_right) ==
    LET ls == IF L = <<>> /\ outer_right THEN <<<<>>>>
              ELSE [i \in 1..Len(L) |-> <<L[i]>>]
        rs == IF R = <<>> /\ outer_left THEN <<<<>>>>
              ELSE [i \in 1..Len(R) |-> <<R[i]>>]
    IN  [n \in 1..(Len(ls) * Len(rs)) |->
            merged_row(ls[((n - 1) \div Len(rs)) + 1], rs[((n - 1) % Len(rs)) + 1],
                       lcols, rcols, on, key)]

\* left.merge(right, how='outer', on=on): the union of the keys, sorted, and
\* for each key every pair of a left and a right row (NaN keys match)
merge_outer(left, right, lcols, rcols, on) ==
    LET order == sorted_keys({left[i][on] : i \in 1..Len(left)}
                             \cup {right[i][on] : i \in 1..Len(right)})
        block(k) == key_block(SelectSeq(left, LAMBDA x : x[on] = k),
                              SelectSeq(right, LAMBDA x : x[on] = k),
                              lcols, rcols, on, k, TRUE, TRUE)
        cat[i \in 0..Len(order)] ==
            IF i = 0 THEN <<>> ELSE cat[i-1] \o block(order[i])
    IN  cat[Len(order)]

\* the mutant joins with how='inner'
merge_left_inner(left, right, lcols, rcols, on) ==
    LET block(i) == key_block(<<left[i]>>,
                              SelectSeq(right, LAMBDA x : x[on] = left[i][on]),
                              lcols, rcols, on, left[i][on], FALSE, FALSE)
        cat[i \in 0..Len(left)] ==
            IF i = 0 THEN <<>> ELSE cat[i-1] \o block(i)
    IN  cat[Len(left)]

\* left.merge(right, how='left', on=on): the left rows in their order, each
\* with every right row of its key, or with NaN when there is none
merge_left(left, right, lcols, rcols, on) ==
    LET block(i) == key_block(<<left[i]>>,
                              SelectSeq(right, LAMBDA x : x[on] = left[i][on]),
                              lcols, rcols, on, left[i][on], TRUE, FALSE)
        cat[i \in 0..Len(left)] ==
            IF i = 0 THEN <<>> ELSE cat[i-1] \o block(i)
    IN  cat[Len(left)]

\* the row of a table indexed by key (set_index after drop_duplicates)
loc(rows, on, key) == rows[CHOOSE i \in 1..Len(rows) : rows[i][on] = key]

\* the mutant assigns the secondary value to every row the two tables share
fill_review_col_overwrite(primary_stat_df, df_concat, col, on) ==
    [i \in 1..Len(primary_stat_df) |->
        IF isin(primary_stat_df[i][on], column(df_concat, on))
        THEN [primary_stat_df[i] EXCEPT
                 ![col] = loc(df_concat, on, primary_stat_df[i][on])[col]]
        ELSE primary_stat_df[i]]

\* primary_stat_df.loc[idx, col] = df_concat.loc[idx, col], idx being the
\* keys of the primary rows whose col is NaN and that df_concat holds
fill_review_col(primary_stat_df, df_concat, col, on) ==
    [i \in 1..Len(primary_stat_df) |->
        IF /\ primary_stat_df[i][col] = NULL
           /\ isin(primary_stat_df[i][on], column(df_concat, on))
        THEN [primary_stat_df[i] EXCEPT
                 ![col] = loc(df_concat, on, primary_stat_df[i][on])[col]]
        ELSE primary_stat_df[i]]

\* FbrefCleanMatchStats.concat_clean_save_all_match_stats of the cleaner self
\* on the cleaned stat tables dfs.  The stat tables other than the primary
\* share no column but the key in the column maps, so the outer merges add
\* no _x / _y suffix.  Besides the table it returns (or the exception), the
\* result names the columns the left merge of line 150 gave two suffixed
\* copies of.
concat_clean_save_all_match_stats(self, dfs) ==
    LET on == self.primary_key
        others == SubSeq(self.stats, 2, Len(self.stats))
        \* lines 117-122: the outer merges of the other stat tables
        merged[i \in 1..Len(others)] ==
            IF i = 1
            THEN [cols |-> self.column_map[others[1]].all_cols,
                  rows |-> dfs[others[1]]]
            ELSE [cols |-> merged[i-1].cols \cup self.column_map[others[i]].all_cols,
                  rows |-> merge_outer(merged[i-1].rows, dfs[others[i]],
                                       merged[i-1].cols,
                                       self.column_map[others[i]].all_cols, on)]
        \* lines 125-126 and 130-131
        df_concat == drop_duplicates(dropna(merged[Len(others)].rows, on), on)
        primary_stat_df == drop_duplicates(dropna(dfs[self.primary_stat], on), on)
        pcols == self.column_map[self.primary_stat].all_cols
        review_cols == self.column_map[self.primary_stat].review_cols
        \* lines 134-143: the loop, left at the first KeyError
        review[i \in 0..Len(review_cols)] ==
            IF i = 0
            THEN [left |-> FALSE, primary |-> primary_stat_df,
                  cols |-> merged[Len(others)].cols]
            ELSE LET before == review[i-1]
                     col == review_cols[i]
                 IN  IF before.left \/ col \notin pcols THEN [before EXCEPT !.left = TRUE]
                     ELSE IF col \notin before.cols THEN [before EXCEPT !.left = TRUE]
                     ELSE [left |-> FALSE,
                           primary |-> fill_review_col(before.primary, df_concat, col, on),
                           cols |-> before.cols \ {col}]
        after == review[Len(review_cols)]
        \* line 150: columns on both sides get a suffix and lose their name
        twice == (pcols \cap after.cols) \ {on}
        joined == merge_left(after.primary, df_concat, pcols, after.cols \ twice, on)
    IN  IF Len(others) = 0
        THEN [raised |-> TRUE, rows |-> <<>>, suffixed |-> {}]
        ELSE IF ~(self.column_map.all_cols \subseteq (pcols \cup after.cols) \ twice)
        THEN [raised |-> TRUE, rows |-> <<>>, suffixed |-> twice]
        ELSE [raised |-> FALSE,
              rows |-> [i \in 1..Len(joined) |->
                          [c \in self.column_map.all_cols |-> joined[i][c]]],
              suffixed |-> twice]

\* ------------------------------------------------ parsing the raw batch
\* The raw batch of the player matches scraper: for every match, in the
\* order of the keys, and each of its teams the player ids and one JSON
\* table per stat; the keys of a team are 'pids', the stats and 'keeper'.
\* What matters of a JSON table is whether it parses into a table the pids
\* fit (pd.read_json, or the assignment of pids, raises otherwise).
raw_teams == <<"home", "away">>

raw_stats == <<"summary", "passing">>

\* list(new_player_matches_dict[match][team].keys())[1:-1]
team_keys == <<"pids">> \o raw_stats \o <<"keeper">>

parsed_stats == SubSeq(team_keys, 2, Len(team_keys) - 1)

\* the table of one stat of one team of one match, lines 100-104: the
\* totals row is cut off, and the row of the team's player is left
parse_stat_df(match, team) ==
    << [pid |-> 1, tid |-> team, match_id |-> match] >>

\* One iteration of the loop over the matches, lines 91-119: the teams and
\* their stats are parsed in turn and every table is concatenated to
\* combined right away; the first table that does not parse raises, which
\* ends the iteration and puts the match on the list of bad matches
parse_match(combined, bad_matches, match, raw_match) ==
    LET n == Len(raw_teams) * Len(parsed_stats)
        team(p) == raw_teams[((p - 1) \div Len(parsed_stats)) + 1]
        stat(p) == parsed_stats[((p - 1) % Len(parsed_stats)) + 1]
        go[p \in 0..n] ==
            IF p = 0 THEN [raised |-> FALSE, combined |-> combined]
            ELSE IF go[p-1].raised THEN go[p-1]
            ELSE IF ~raw_match[team(p)][stat(p)] THEN [go[p-1] EXCEPT !.raised = TRUE]
            ELSE [raised |-> FALSE,
                  combined |-> [go[p-1].combined EXCEPT
                                   ![stat(p)] = @ \o parse_stat_df(match, team(p))]]
    IN  [combined |-> go[n].combined,
         bad_matches |-> IF go[n].raised THEN Append(bad_matches, match)
                         ELSE bad_matches]

\* FbrefCleanPlayerMatches.parse_concat_match_stat_dfs: the combined table
\* of every stat (empty for a stat no table was parsed of) and the bad
\* matches
parse_concat_match_stat_dfs(new_player_matches_dict) ==
    LET loop[i \in 0..Len(new_player_matches_dict)] ==
            IF i = 0
            THEN [combined |-> [st \in {parsed_stats[k] : k \in 1..Len(parsed_stats)}
                                  |-> <<>>],
                  bad_matches |-> <<>>]
            ELSE parse_match(loop[i-1].combined, loop[i-1].bad_matches, i,
                             new_player_matches_dict[i])
    IN  loop[Len(new_player_matches_dict)]

\* ---------------------------------------------------------- composite keys
\* The identifiers are texts (str), never empty.  A JSON null of the raw
\* data, which json.load turns into None, is written json_null.
json_null == <<>>

\* str(x): the text itself, and "None" for None
str(x) == IF x = json_null THEN <<"N", "o", "n", "e">> ELSE x

\* id1 + "_" + id2 on two texts (tls_id, ptls_id, player_match, team_match)
derive_key(id1, id2) == id1 \o <<"_">> \o id2

\* the ids the source gives (of a player, a team, a league, a season), and
\* the ids at hand: those and the keys derived from two of them (an ls_id
\* or a tls_id is itself a constituent of the next key)
NaturalIds == {<<ToString(k)>> : k \in Keys}

Identifiers == NaturalIds \cup {derive_key(a, b) : a, b \in NaturalIds}

\* the rows the loop of lines 66-72 stores, in the order of the keys of the
\* dictionary and of the list of every key
ptls_rows(ptls_dict) ==
    LET of_key(e) == [i \in 1..Len(e.pids) |->
                        [ptls_id |-> derive_key(str(e.pids[i]), str(e.k)),
                         tls_id |-> e.k,
                         pid |-> e.pids[i]]]
        cat[i \in 0..Len(ptls_dict)] ==
            IF i = 0 THEN <<>> ELSE cat[i-1] \o of_key(ptls_dict[i])
    IN  cat[Len(ptls_dict)]

\* FbrefCleanPlayerTeamLeagueSeasons.player_team_league_seasons_clean:
\* dropna(subset=['ptls_id']) drops the rows whose key is None, then
\* drop_duplicates keeps the first row of every key
player_team_league_seasons_clean(ptls_dict) ==
    drop_duplicates(SelectSeq(ptls_rows(ptls_dict),
                              LAMBDA r : r.ptls_id # json_null),
                    "ptls_id")

\* ------------------------------------------------------- league seasons
\* the dates a league season can start on, in the order of time, which is
\* the order > has on their texts
Dates == <<"2024-06-30", "2024-07-01", "2024-07-02">>

\* a > b on two dates
later(a, b) ==
    (CHOOSE i \in 1..Len(Dates) : Dates[i] = a) > (CHOOSE i \in 1..Len(Dates) : Dates[i] = b)

\* FbrefCleanLeagueSeasons.league_seasons_clean, lines 109-114, on the merged
\* table of the new league seasons: the key, the rows with
\* lg_start > new_match_reference_date, dropna and drop_duplicates on the key
league_seasons_clean(ls_new, reference_date) ==
    LET keyed == [i \in 1..Len(ls_new) |->
                    [ls_id |-> derive_key(str(ls_new[i].lg_id), str(ls_new[i].season)),
                     lg_id |-> ls_new[i].lg_id,
                     season |-> ls_new[i].season,
                     lg_start |-> ls_new[i].lg_start]]
        selected == SelectSeq(keyed, LAMBDA r : later(r.lg_start, reference_date))
    IN  drop_duplicates(SelectSeq(selected, LAMBDA r : r.ls_id # json_null), "ls_id")

\* ------------------------------------------------------------------ state
VARIABLES
    db_table,        \* FbrefClean.db_table: the production table in memory
    clean_data,      \* the cleaned batch (new_cleaned_data of update_table)
    new_table,       \* what update_table returned
    replace_vals,    \* the replace_vals argument
    again,           \* update_table applied to its own result
    upc,             \* position of the upsert harness
    start_from,      \* argument of run_workflow
    idx,             \* index into steps of the step that runs (or runs next)
    nrun,            \* steps started in this run
    faults,          \* operations that did not go well in this run
    pc,              \* position inside the step
    prod,            \* data/db_tables/<name>.csv
    batch_file,      \* data/fbref/<name>/<name>_<update_id>.csv
    backup_file,     \* data/fbref/<name>/<name>_backup_<update_id>.csv
    sql,             \* the tables of data/soccerdb.db
    db_dict,         \* config/db_dict.json
    data,            \* the batch inside upload_clean_data
    log,             \* the records handed to the logger
    ops,             \* what the running step has achieved so far
    runs,            \* times run_workflow has been run for this update_id
    first,           \* the files as the run before this one left them
    dfs,             \* the cleaned stat tables of the temp directory
    new_match_stats_clean,   \* what concat_clean_save_all_match_stats returned
    new_player_matches_dict, \* the raw batch of the player matches
    parsed,          \* what parse_concat_match_stat_dfs returned
    ptls_dict,       \* the raw dictionary of the ptls scraper
    bad_config,      \* the entry that is missing from the config files
    ls_new           \* the merged table of the new league seasons

wvars == <<start_from, idx, nrun, faults, pc, prod, batch_file, backup_file, sql,
           db_dict, data, log, ops, runs, first, dfs, new_match_stats_clean,
           new_player_matches_dict, parsed, ptls_dict, bad_config, ls_new>>

vars == <<db_table, clean_data, new_table, replace_vals, again, upc, wvars>>

\* sequences of at most n elements of S
SeqUpTo(S, n) == UNION {[1..k -> S] : k \in 0..n}

\* a table the program can hold as production state: update_table wrote it,
\* so its primary keys are non-null and pairwise different
IsProduction(rows, primary_key) ==
    /\ \A i \in 1..Len(rows) : rows[i][primary_key] # NULL
    /\ \A i, j \in 1..Len(rows) : rows[i][primary_key] = rows[j][primary_key] => i = j

\* rows of the players table: primary key pid and one data column
PlayerRows == [pid : Keys \cup {NULL}, v : Vals]

NotCalled == [raised |-> FALSE, rows |-> <<>>]

\* a file that does not exist / a CSV file holding rows
NoFile == [exists |-> FALSE, rows |-> <<>>]

File(rows) == [exists |-> TRUE, rows |-> rows]

\* run_workflow(start_from=None)
NoStart == "None"

\* the installed state: every table holds the row of key 1, in production,
\* in the database and in the index, as of the last update
Installed == [n \in Entities |-> << [c \in columns(n) |-> 1] >>]

InstalledIndex ==
    [n \in Entities |-> [update |-> old_match_reference_date, ids |-> <<1>>]]

\* the batches a cleaner can return for an entity: the cleaners drop rows
\* without key and duplicate keys themselves
Batches(name) ==
    {b \in SeqUpTo([columns(name) -> Keys], MaxBatch) :
        IsProduction(b, name_to_primary(name))}

\* there was no run before this one
NoRun == <<>>

\* the config files hold the create-table query and the primary key of
\* every entity / the file f has no entry for the entity n
NoBadConfig == <<>>

Missing(n, f) == bad_config = <<n, f>>

ConfigFiles == {"create_table_queries.json", "primary_key_config.json"}

\* the files a run leaves behind
Persisted(tables, store, index, batches) ==
    [prod |-> tables, sql |-> store, db_dict |-> index, batch_file |-> batches]

\* no stat table has been cleaned
NoStats == [s \in {stats[i] : i \in 1..Len(stats)} |-> <<>>]

\* The cleaned stat tables a batch can give.  A value of the primary table
\* is 1 and a value of another table 2, so that the origin of a value of
\* the output shows; the other tables are shorter than the primary one.
StatKeys == 1..MaxStatRows

StatTables ==
    [summary : SeqUpTo([player_match : StatKeys \cup {NULL}, minutes : {NULL, 1}],
                       MaxStatRows),
     passing : SeqUpTo([player_match : StatKeys \cup {NULL}, minutes : {NULL, 2}],
                       MaxStatRows - 1),
     defense : SeqUpTo([player_match : StatKeys \cup {NULL}, tackles : {2}], 1)]

\* The cleaned stat tables a batch of team matches can give, a value of the
\* primary table being 1 and a value of the other table 2.
TeamStatTables ==
    [schedule : SeqUpTo([team_match : StatKeys \cup {NULL}, poss : {NULL, 1},
                         xg : {NULL, 1}], MaxStatRows),
     shooting : SeqUpTo([team_match : StatKeys \cup {NULL}, xg : {NULL, 2}],
                        MaxStatRows - 1)]

\* parse_concat_match_stat_dfs has not been called
NotParsed == <<>>

\* the raw batches: for every match and team, whether each table parses
RawBatches ==
    SeqUpTo([{raw_teams[i] : i \in 1..Len(raw_teams)} ->
               [{parsed_stats[i] : i \in 1..Len(parsed_stats)} -> BOOLEAN]],
            MaxItems)

\* the raw dictionaries of the ptls scraper: a list of player ids, some of
\* which can be null, under every team league season, in the order of the
\* keys (which are pairwise different)
PtlsDicts ==
    {d \in SeqUpTo([k : Identifiers,
                    pids : SeqUpTo(Identifiers \cup {json_null}, MaxPids)], MaxDict) :
        \A i, j \in 1..Len(d) : d[i].k = d[j].k => i = j}

\* the merged tables of new league seasons the raw files can give
LsNewTables ==
    SeqUpTo([lg_id : NaturalIds, season : NaturalIds,
             lg_start : {Dates[i] : i \in 1..Len(Dates)}], MaxRows)

\* ------------------------------------------- update_table as a function
InitUpsert ==
    /\ db_table \in {t \in SeqUpTo(PlayerRows, MaxRows) : IsProduction(t, "pid")}
    /\ clean_data \in {None} \cup {DataFrame(t) : t \in SeqUpTo(PlayerRows, MaxRows)}
    /\ replace_vals \in BOOLEAN
    /\ new_table = NotCalled
    /\ again = NotCalled
    /\ upc = "start"
    /\ start_from = NoStart /\ idx = 0 /\ nrun = 0 /\ faults = 0 /\ pc = "idle"
    /\ prod = Installed /\ sql = Installed /\ db_dict = InstalledIndex
    /\ batch_file = [n \in Entities |-> NoFile]
    /\ backup_file = [n \in Entities |-> NoFile]
    /\ data = <<>> /\ log = <<>> /\ ops = {}
    /\ runs = 1
    /\ first = NoRun
    /\ bad_config = NoBadConfig
    /\ ls_new = <<>>
    /\ new_player_matches_dict = <<>> /\ parsed = NotParsed
    /\ ptls_dict = <<>>
    /\ dfs = NoStats /\ new_match_stats_clean = NotCalled

\* new_table = self.update_table(clean_data, replace_vals)
UpdateTable ==
    /\ upc = "start"
    /\ new_table' = update_table(db_table, clean_data, replace_vals, "pid")
    /\ upc' = "once"
    /\ UNCHANGED <<db_table, clean_data, replace_vals, again, wvars>>

\* the same batch merged into the table the first call returned
UpdateTableAgain ==
    /\ upc = "once"
    /\ ~new_table.raised
    /\ again' = update_table(new_table.rows, clean_data, replace_vals, "pid")
    /\ upc' = "twice"
    /\ UNCHANGED <<db_table, clean_data, replace_vals, new_table, wvars>>

NextUpsert == UpdateTable \/ UpdateTableAgain

SpecUpsert == InitUpsert /\ [][NextUpsert]_vars

\* ------------------------- concat_clean_save_all_match_stats as a function
InitReconcile ==
    /\ dfs \in StatTables
    /\ new_match_stats_clean = NotCalled
    /\ upc = "reconcile"
    /\ db_table = <<>> /\ clean_data = None /\ replace_vals = FALSE
    /\ new_table = NotCalled /\ again = NotCalled
    /\ start_from = NoStart /\ nrun = 0 /\ faults = 0 /\ pc = "idle"
    /\ idx = CHOOSE i \in 1..Len(steps) : steps[i] = "player_matches"
    /\ prod = Installed /\ sql = Installed /\ db_dict = InstalledIndex
    /\ batch_file = [n \in Entities |-> NoFile]
    /\ backup_file = [n \in Entities |-> NoFile]
    /\ data = <<>> /\ log = <<>> /\ ops = {}
    /\ runs = 1
    /\ first = NoRun
    /\ bad_config = NoBadConfig
    /\ ls_new = <<>>
    /\ new_player_matches_dict = <<>> /\ parsed = NotParsed
    /\ ptls_dict = <<>>

\* the same for the cleaner of the team matches
InitReconcileTeam ==
    /\ dfs \in TeamStatTables
    /\ new_match_stats_clean = NotCalled
    /\ upc = "reconcile"
    /\ db_table = <<>> /\ clean_data = None /\ replace_vals = FALSE
    /\ new_table = NotCalled /\ again = NotCalled
    /\ start_from = NoStart /\ nrun = 0 /\ faults = 0 /\ pc = "idle"
    /\ idx = CHOOSE i \in 1..Len(steps) : steps[i] = "team_matches"
    /\ prod = Installed /\ sql = Installed /\ db_dict = InstalledIndex
    /\ batch_file = [n \in Entities |-> NoFile]
    /\ backup_file = [n \in Entities |-> NoFile]
    /\ data = <<>> /\ log = <<>> /\ ops = {}
    /\ runs = 1
    /\ first = NoRun
    /\ bad_config = NoBadConfig
    /\ ls_new = <<>>
    /\ new_player_matches_dict = <<>> /\ parsed = NotParsed
    /\ ptls_dict = <<>>

\* new_match_stats_clean = self.concat_clean_save_all_match_stats(update_id),
\* self being the cleaner of the step that runs
ConcatCleanSaveAllMatchStats ==
    /\ upc = "reconcile"
    /\ new_match_stats_clean' =
           concat_clean_save_all_match_stats(FbrefCleanMatchStats(steps[idx]), dfs)
    /\ upc' = "reconciled"
    /\ UNCHANGED <<db_table, clean_data, new_table, replace_vals, again, start_from,
                   idx, nrun, faults, pc, prod, batch_file, backup_file, sql, db_dict,
                   data, log, ops, runs, first, dfs, new_player_matches_dict, parsed,
                   ptls_dict, bad_config, ls_new>>

NextReconcile == ConcatCleanSaveAllMatchStats

SpecReconcile == InitReconcile /\ [][NextReconcile]_vars

SpecReconcileTeam == InitReconcileTeam /\ [][NextReconcile]_vars

\* ------------------------------- parse_concat_match_stat_dfs as a function
InitParse ==
    /\ new_player_matches_dict \in RawBatches
    /\ parsed = NotParsed
    /\ ptls_dict = <<>>
    /\ upc = "parse"
    /\ dfs = NoStats /\ new_match_stats_clean = NotCalled
    /\ db_table = <<>> /\ clean_data = None /\ replace_vals = FALSE
    /\ new_table = NotCalled /\ again = NotCalled
    /\ start_from = NoStart /\ nrun = 0 /\ faults = 0 /\ pc = "idle"
    /\ idx = CHOOSE i \in 1..Len(steps) : steps[i] = "player_matches"
    /\ prod = Installed /\ sql = Installed /\ db_dict = InstalledIndex
    /\ batch_file = [n \in Entities |-> NoFile]
    /\ backup_file = [n \in Entities |-> NoFile]
    /\ data = <<>> /\ log = <<>> /\ ops = {}
    /\ runs = 1
    /\ first = NoRun
    /\ bad_config = NoBadConfig
    /\ ls_new = <<>>

\* combined_new_match_stats_dict, bad_matches =
\*     self.parse_concat_match_stat_dfs(new_match_stats_dict)
ParseConcatMatchStatDfs ==
    /\ upc = "parse"
    /\ parsed' = parse_concat_match_stat_dfs(new_player_matches_dict)
    /\ upc' = "parsed"
    /\ UNCHANGED <<db_table, clean_data, new_table, replace_vals, again, start_from,
                   idx, nrun, faults, pc, prod, batch_file, backup_file, sql, db_dict,
                   data, log, ops, runs, first, dfs, new_match_stats_clean,
                   new_player_matches_dict, ptls_dict, bad_config, ls_new>>

NextParse == ParseConcatMatchStatDfs

SpecParse == InitParse /\ [][NextParse]_vars

\* --------------------------- player_team_league_seasons_clean as a function
InitPtls ==
    /\ ptls_dict \in PtlsDicts
    /\ clean_data = None
    /\ upc = "ptls"
    /\ new_player_matches_dict = <<>> /\ parsed = NotParsed
    /\ dfs = NoStats /\ new_match_stats_clean = NotCalled
    /\ db_table = <<>> /\ replace_vals = FALSE
    /\ new_table = NotCalled /\ again = NotCalled
    /\ start_from = NoStart /\ nrun = 0 /\ faults = 0 /\ pc = "idle"
    /\ idx = CHOOSE i \in 1..Len(steps) : steps[i] = "ptls"
    /\ prod = Installed /\ sql = Installed /\ db_dict = InstalledIndex
    /\ batch_file = [n \in Entities |-> NoFile]
    /\ backup_file = [n \in Entities |-> NoFile]
    /\ data = <<>> /\ log = <<>> /\ ops = {}
    /\ runs = 1
    /\ first = NoRun
    /\ bad_config = NoBadConfig
    /\ ls_new = <<>>

\* clean_data = self.player_team_league_seasons_clean(update_id)
PlayerTeamLeagueSeasonsClean ==
    /\ upc = "ptls"
    /\ clean_data' = DataFrame(player_team_league_seasons_clean(ptls_dict))
    /\ upc' = "ptls_cleaned"
    /\ UNCHANGED <<db_table, new_table, replace_vals, again, start_from,
                   idx, nrun, faults, pc, prod, batch_file, backup_file, sql, db_dict,
                   data, log, ops, runs, first, dfs, new_match_stats_clean,
                   new_player_matches_dict, parsed, ptls_dict, bad_config, ls_new>>

NextPtls == PlayerTeamLeagueSeasonsClean

SpecPtls == InitPtls /\ [][NextPtls]_vars

\* ------------------------------------- league_seasons_clean as a function
InitLs ==
    /\ ls_new \in LsNewTables
    /\ clean_data = None
    /\ upc = "ls"
    /\ ptls_dict = <<>>
    /\ new_player_matches_dict = <<>> /\ parsed = NotParsed
    /\ dfs = NoStats /\ new_match_stats_clean = NotCalled
    /\ db_table = <<>> /\ replace_vals = FALSE
    /\ new_table = NotCalled /\ again = NotCalled
    /\ start_from = NoStart /\ nrun = 0 /\ faults = 0 /\ pc = "idle"
    /\ idx = CHOOSE i \in 1..Len(steps) : steps[i] = "ls"
    /\ prod = Installed /\ sql = Installed /\ db_dict = InstalledIndex
    /\ batch_file = [n \in Entities |-> NoFile]
    /\ backup_file = [n \in Entities |-> NoFile]
    /\ data = <<>> /\ log = <<>> /\ ops = {}
    /\ runs = 1
    /\ first = NoRun
    /\ bad_config = NoBadConfig

\* clean_data = self.league_seasons_clean(update_id, new_match_reference_date)
LeagueSeasonsClean ==
    /\ upc = "ls"
    /\ clean_data' = DataFrame(league_seasons_clean(ls_new, new_match_reference_date))
    /\ upc' = "ls_cleaned"
    /\ UNCHANGED <<db_table, new_table, replace_vals, again, start_from,
                   idx, nrun, faults, pc, prod, batch_file, backup_file, sql, db_dict,
                   data, log, ops, runs, first, dfs, new_match_stats_clean,
                   new_player_matches_dict, parsed, ptls_dict, bad_config, ls_new>>

NextLs == LeagueSeasonsClean

SpecLs == InitLs /\ [][NextLs]_vars

\* --------------------------------------------------------- the workflow
Init ==
    /\ start_from \in {NoStart} \cup Entities
    /\ idx = 0 /\ nrun = 0 /\ faults = 0 /\ pc = "run_workflow"
    /\ prod = Installed /\ sql = Installed /\ db_dict = InstalledIndex
    /\ batch_file = [n \in Entities |-> NoFile]
    /\ backup_file = [n \in Entities |-> NoFile]
    /\ db_table = <<>> /\ clean_data = None /\ new_table = NotCalled
    /\ data = <<>> /\ log = <<>> /\ ops = {}
    /\ runs = 1
    /\ first = NoRun
    /\ bad_config = NoBadConfig
    /\ ls_new = <<>>
    /\ new_player_matches_dict = <<>> /\ parsed = NotParsed
    /\ ptls_dict = <<>>
    /\ dfs = NoStats /\ new_match_stats_clean = NotCalled
    /\ replace_vals = FALSE /\ again = NotCalled /\ upc = "idle"

\* the step that is running
name == steps[idx]

Log(msg, n) == [msg |-> msg, name |-> n]

upsert_vars == <<replace_vals, again, upc>>

run_vars == <<runs, first>>

\* the variables of the functions checked on their own, and the configuration
stat_vars == <<dfs, new_match_stats_clean, new_player_matches_dict, parsed, ptls_dict,
               bad_config, ls_new>>

\* the environment lets an operation go well or not (an I/O or database
\* error, a scraper exception, an operator answering "no"); what does not
\* go well is counted
Env(well) ==
    /\ well \/ faults < MaxFaults
    /\ faults' = IF well THEN faults ELSE faults + 1

\* the mutant ignores start_from
RunWorkflow_first ==
    /\ pc = "run_workflow"
    /\ idx' = 1
    /\ pc' = "loop"
    /\ UNCHANGED <<start_from, nrun, faults, prod, batch_file, backup_file, sql,
                   db_dict, data, log, ops, db_table, clean_data, new_table,
                   upsert_vars, run_vars, stat_vars>>

\* the mutant runs no step when no step has the name start_from
RunWorkflow_skip ==
    /\ pc = "run_workflow"
    /\ idx' = IF start_from = NoStart THEN 1
              ELSE IF start_from \in StepNames
              THEN CHOOSE i \in 1..Len(steps) : steps[i] = start_from
              ELSE Len(steps) + 1
    /\ pc' = "loop"
    /\ UNCHANGED <<start_from, nrun, faults, prod, batch_file, backup_file, sql,
                   db_dict, data, log, ops, db_table, clean_data, new_table,
                   upsert_vars, run_vars, stat_vars>>

\* run_workflow, up to the loop: start_index is the position of start_from,
\* and the default 0 of next(...) when no step has that name
RunWorkflow ==
    /\ pc = "run_workflow"
    /\ idx' = IF start_from # NoStart /\ start_from \in StepNames
              THEN CHOOSE i \in 1..Len(steps) : steps[i] = start_from
              ELSE 1
    /\ pc' = "loop"
    /\ UNCHANGED <<start_from, nrun, faults, prod, batch_file, backup_file, sql,
                   db_dict, data, log, ops, db_table, clean_data, new_table,
                   upsert_vars, run_vars, stat_vars>>

\* update_<name> is left, by return or by exception: its cleaner and
\* uploader are gone, the loop takes the next step
StepOver ==
    /\ idx' = idx + 1
    /\ pc' = "loop"
    /\ db_table' = <<>> /\ clean_data' = None /\ new_table' = NotCalled
    /\ data' = <<>> /\ ops' = {}

\* an exception leaves update_<name>: run_workflow logs it
StepRaises ==
    /\ log' = Append(log, Log("Error in step", name))
    /\ StepOver

\* one iteration starts: "Starting step" is logged and update_<name> builds
\* its scraper, cleaner (load_data reads the production tables) and uploader
\* and does the scraping that precedes the cleaning, which can raise.  The
\* uploader's set_primary_key raises KeyError for an entity without entry
\* in primary_key_config.json.
StartStep ==
    /\ pc = "loop" /\ idx <= Len(steps) /\ nrun < MaxSteps
    /\ nrun' = nrun + 1
    /\ \E well \in BOOLEAN :
         /\ Env(well)
         /\ IF well /\ ~Missing(name, "primary_key_config.json")
            THEN /\ log' = Append(log, Log("Starting step", name))
                 /\ db_table' = prod[name]
                 /\ pc' = "clean_data"
                 /\ UNCHANGED <<idx, clean_data, new_table, data, ops>>
            ELSE /\ log' = log \o <<Log("Starting step", name),
                                     Log("Error in step", name)>>
                 /\ StepOver
    /\ UNCHANGED <<start_from, prod, batch_file, backup_file, sql, db_dict,
                   upsert_vars, run_vars, stat_vars>>

\* the loop is over
Finish ==
    /\ pc = "loop" /\ idx > Len(steps)
    /\ pc' = "finished"
    /\ UNCHANGED <<start_from, idx, nrun, faults, prod, batch_file, backup_file,
                   sql, db_dict, data, log, ops, db_table, clean_data, new_table,
                   upsert_vars, run_vars, stat_vars>>

\* clean_save_update_data caught an exception: it logs it and returns None,
\* and update_<name> goes on with upload_clean_data
CleanerCaught ==
    /\ log' = Append(log, Log("Could not clean, save and update", name))
    /\ pc' = "upload_clean_data"

\* clean_save_update_data, lines 99-103: clean_data and the save of the batch.
\* The cleaner of the keeper matches has written its table to the batch file
\* of the player matches before it returns it
\* (concat_save_clean_keeper_matches, line 94).
CleanData ==
    /\ pc = "clean_data"
    /\ \E outcome \in clean_outcomes(name) :
         CASE outcome = "raise" ->
                /\ Env("df" \notin clean_outcomes(name))
                /\ CleanerCaught
                /\ UNCHANGED <<clean_data, batch_file>>
           [] outcome = "None" ->
                \* save_data(None, ...) writes nothing and returns False
                /\ Env(FALSE)
                /\ clean_data' = None
                /\ pc' = "confirm_backup"
                /\ UNCHANGED <<log, batch_file>>
           [] outcome = "df" ->
                \E b \in Batches(name), written \in BOOLEAN :
                    /\ Env(written)
                    /\ clean_data' = DataFrame(b)
                    /\ batch_file' =
                         [n \in Entities |->
                            IF n = name /\ written THEN File(b)
                            ELSE IF n = "player_matches" /\ name = "keeper_matches"
                            THEN File(b)
                            ELSE batch_file[n]]
                    /\ pc' = "confirm_backup"
                    /\ UNCHANGED log
    /\ UNCHANGED <<start_from, idx, nrun, prod, backup_file, sql, db_dict, data, ops,
                   db_table, new_table, upsert_vars, run_vars, stat_vars>>

\* the first prompt: anything but "yes" raises "cancelled by user"
ConfirmBackup ==
    /\ pc = "confirm_backup"
    /\ \E user_input \in {"yes", "no"} :
         /\ Env(user_input = "yes")
         /\ IF user_input # "yes"
            THEN CleanerCaught
            ELSE pc' = "backup_table" /\ UNCHANGED log
    /\ UNCHANGED <<start_from, idx, nrun, prod, batch_file, backup_file, sql, db_dict,
                   data, ops, db_table, clean_data, new_table, upsert_vars, run_vars, stat_vars>>

\* backup_table: an existing backup is overwritten only on "yes"; save_data
\* swallows a write error
BackupTable ==
    /\ pc = "backup_table"
    /\ \E user_input \in {"yes", "no"}, written \in BOOLEAN :
         /\ backup_file[name].exists \/ user_input = "yes"
         /\ Env(user_input = "yes" /\ written)
         /\ IF user_input # "yes" \/ ~written
            THEN UNCHANGED <<backup_file, ops>>
            ELSE /\ backup_file' = [backup_file EXCEPT ![name] = File(db_table)]
                 /\ ops' = ops \cup {"backup"}
    /\ pc' = "confirm_update"
    /\ UNCHANGED <<start_from, idx, nrun, prod, batch_file, sql, db_dict, data, log,
                   db_table, clean_data, new_table, upsert_vars, run_vars, stat_vars>>

\* the second prompt
ConfirmUpdate ==
    /\ pc = "confirm_update"
    /\ \E user_input \in {"yes", "no"} :
         /\ Env(user_input = "yes")
         /\ IF user_input # "yes"
            THEN CleanerCaught
            ELSE pc' = "update_table" /\ UNCHANGED log
    /\ UNCHANGED <<start_from, idx, nrun, prod, batch_file, backup_file, sql, db_dict,
                   data, ops, db_table, clean_data, new_table, upsert_vars, run_vars, stat_vars>>

\* new_table = self.update_table(clean_data): the merge and the save of the
\* production file, whose result update_table does not look at
UpdateProduction ==
    /\ pc = "update_table"
    /\ LET result == update_table(db_table, clean_data, replace_vals,
                                  name_to_primary(name))
       IN  /\ new_table' = result
           /\ \E written \in BOOLEAN :
                /\ Env(written)
                /\ IF written
                   THEN /\ prod' = [prod EXCEPT ![name] = result.rows]
                        /\ ops' = ops \cup {"upsert", "persist"}
                   ELSE /\ UNCHANGED prod
                        /\ ops' = ops \cup {"upsert"}
    /\ pc' = "update_db_dict"
    /\ UNCHANGED <<start_from, idx, nrun, batch_file, backup_file, sql, db_dict, data,
                   log, db_table, clean_data, upsert_vars, run_vars, stat_vars>>

\* FbrefClean.update_db_dict(new_table, last_date); an error is logged only
CleanerUpdateDbDict ==
    /\ pc = "update_db_dict"
    /\ \E written \in BOOLEAN :
         /\ Env(written)
         /\ IF written
            THEN /\ db_dict' = [db_dict EXCEPT ![name] =
                       [update |-> step_date(name),
                        ids |-> column(new_table.rows, name_to_primary(name))]]
                 /\ ops' = ops \cup {"cleaner_index"}
            ELSE UNCHANGED <<db_dict, ops>>
    /\ pc' = "upload_clean_data"
    /\ UNCHANGED <<start_from, idx, nrun, prod, batch_file, backup_file, sql, data, log,
                   db_table, clean_data, new_table, upsert_vars, run_vars, stat_vars>>

\* upload_clean_data, lines 81-84: the batch file of this update_id is read;
\* read_csv raises when there is none
UploadLoad ==
    /\ pc = "upload_clean_data"
    /\ IF batch_file[name].exists
       THEN /\ data' = batch_file[name].rows
            /\ pc' = "check_table_constraints"
            /\ UNCHANGED <<idx, log, db_table, clean_data, new_table, ops>>
       ELSE StepRaises
    /\ UNCHANGED <<start_from, nrun, faults, prod, batch_file, backup_file, sql,
                   db_dict, upsert_vars, run_vars, stat_vars>>

\* clean_data = self.check_table_constraints(data); load_table returns None
\* after a sqlite3.Error, and db_table.shape then raises.  For an entity
\* without entry in create_table_queries.json set_create_table_query has
\* logged the KeyError and set the query to None, and the loop over the
\* query raises TypeError.
CheckTableConstraints ==
    /\ pc = "check_table_constraints"
    /\ \E loaded \in BOOLEAN :
         LET checked == check_table_constraints(data, name, sql[name], db_dict)
         IN  /\ Env(loaded)
             /\ IF /\ loaded /\ ~checked.raised
                   /\ ~Missing(name, "create_table_queries.json")
                THEN /\ data' = checked.rows
                     /\ ops' = ops \cup {"gate"}
                     /\ pc' = "upload_to_db"
                     /\ UNCHANGED <<idx, log, db_table, clean_data, new_table>>
                ELSE StepRaises
    /\ UNCHANGED <<start_from, nrun, prod, batch_file, backup_file, sql, db_dict,
                   upsert_vars, run_vars, stat_vars>>

\* upload_to_db: the rows are appended to the table; an exception of to_sql
\* is logged and upload_to_db returns as after a success
UploadToDb ==
    /\ pc = "upload_to_db"
    /\ \E committed \in BOOLEAN :
         /\ Env(committed)
         /\ IF committed
            THEN /\ sql' = [sql EXCEPT ![name] = sql[name] \o data]
                 /\ ops' = ops \cup {"commit"}
                 /\ UNCHANGED log
            ELSE /\ log' = Append(log, Log("An error occurred", name))
                 /\ UNCHANGED <<sql, ops>>
    /\ pc' = "upload_update_db_dict"
    /\ UNCHANGED <<start_from, idx, nrun, prod, batch_file, backup_file, db_dict, data,
                   db_table, clean_data, new_table, upsert_vars, run_vars, stat_vars>>

\* UploadSoccerDB.update_db_dict(clean_data), after which update_<name>
\* returns and run_workflow logs "Completed step"
UploaderUpdateDbDict ==
    /\ pc = "upload_update_db_dict"
    /\ \E written \in BOOLEAN :
         /\ Env(written)
         /\ db_dict' = IF written
                       THEN [db_dict EXCEPT ![name].ids =
                                column(data, name_to_primary(name))]
                       ELSE db_dict
    /\ log' = Append(log, Log("Completed step", name))
    /\ StepOver
    /\ UNCHANGED <<start_from, nrun, prod, batch_file, backup_file, sql, upsert_vars, run_vars, stat_vars>>

Next ==
    \/ RunWorkflow
    \/ StartStep
    \/ Finish
    \/ CleanData
    \/ ConfirmBackup
    \/ BackupTable
    \/ ConfirmUpdate
    \/ UpdateProduction
    \/ CleanerUpdateDbDict
    \/ UploadLoad
    \/ CheckTableConstraints
    \/ UploadToDb
    \/ UploaderUpdateDbDict

Spec == Init /\ [][Next]_vars

\* ----------------------------------- the workflow with a config entry missing
\* a run from the first step, or of the last step, one entity having no
\* entry in one config file
InitBadConfig ==
    /\ start_from \in {NoStart, steps[Len(steps)]}
    /\ bad_config \in StepNames \X ConfigFiles
    /\ ls_new = <<>>
    /\ idx = 0 /\ nrun = 0 /\ faults = 0 /\ pc = "run_workflow"
    /\ prod = Installed /\ sql = Installed /\ db_dict = InstalledIndex
    /\ batch_file = [n \in Entities |-> NoFile]
    /\ backup_file = [n \in Entities |-> NoFile]
    /\ db_table = <<>> /\ clean_data = None /\ new_table = NotCalled
    /\ data = <<>> /\ log = <<>> /\ ops = {}
    /\ runs = 1
    /\ first = NoRun
    /\ new_player_matches_dict = <<>> /\ parsed = NotParsed
    /\ ptls_dict = <<>>
    /\ dfs = NoStats /\ new_match_stats_clean = NotCalled
    /\ replace_vals = FALSE /\ again = NotCalled /\ upc = "idle"

SpecBadConfig == InitBadConfig /\ [][Next]_vars

\* ------------------------------------------------ the workflow, run again
\* run_workflow has returned, or the run was interrupted between two steps,
\* with every operation of it having gone well, and the operator runs it
\* again with the same arguments: the files are what the run before left
Restart ==
    /\ pc = "finished" \/ (pc = "loop" /\ nrun = MaxSteps)
    /\ runs < MaxRuns /\ faults = 0
    /\ runs' = runs + 1
    /\ first' = Persisted(prod, sql, db_dict, batch_file)
    /\ idx' = 0 /\ nrun' = 0 /\ pc' = "run_workflow"
    /\ UNCHANGED <<start_from, faults, prod, batch_file, backup_file, sql, db_dict,
                   data, log, ops, db_table, clean_data, new_table, upsert_vars,
                   stat_vars>>

NextRestart == Next \/ Restart

SpecRestart == Init /\ [][NextRestart]_vars

\* --------------------------------------------- run_workflow on its own
\* the mutant lets the exception of func end the loop
CallFunc_abort ==
    /\ pc = "loop" /\ idx <= Len(steps)
    /\ \E outcome \in {"returns", "raises"} :
         /\ log' = log \o <<Log("Starting step", name),
                              Log(IF outcome = "returns" THEN "Completed step"
                                  ELSE "Error in step", name)>>
         /\ idx' = IF outcome = "returns" THEN idx + 1 ELSE Len(steps) + 1
    /\ UNCHANGED <<start_from, nrun, faults, pc, prod, batch_file, backup_file, sql,
                   db_dict, data, ops, db_table, clean_data, new_table, upsert_vars, run_vars, stat_vars>>

\* One iteration of the loop of run_workflow for any callable func: "Starting
\* step" is logged, func(*args) returns ("Completed step") or raises an
\* Exception, which is caught ("Error in step"), and the loop goes on.
CallFunc ==
    /\ pc = "loop" /\ idx <= Len(steps)
    /\ \E outcome \in {"returns", "raises"} :
         log' = log \o <<Log("Starting step", name),
                           Log(IF outcome = "returns" THEN "Completed step"
                               ELSE "Error in step", name)>>
    /\ idx' = idx + 1
    /\ UNCHANGED <<start_from, nrun, faults, pc, prod, batch_file, backup_file, sql,
                   db_dict, data, ops, db_table, clean_data, new_table, upsert_vars, run_vars, stat_vars>>

NextRunWorkflow == RunWorkflow \/ CallFunc \/ Finish

SpecRunWorkflow == Init /\ [][NextRunWorkflow]_vars

\* ------------------------------------------------- claims on update_table
\* the rows of t whose primary key is k
RowsOf(t, k) == {i \in 1..Len(t) : t[i].pid = k}

\* the first row of t whose primary key is k
FirstOf(t, k) == t[CHOOSE i \in RowsOf(t, k) : \A j \in RowsOf(t, k) : i <= j]

\* the tables update_table has returned so far
Returned ==
    (IF upc \in {"once", "twice"} /\ ~new_table.raised THEN {new_table.rows} ELSE {})
    \cup (IF upc = "twice" /\ ~again.raised THEN {again.rows} ELSE {})

\* C1: every row of a table returned by update_table has a non-null primary
\* key, and no two rows of it share a primary key value.
C1_PrimaryKeyNonNullUnique ==
    \A t \in Returned :
        /\ \A i \in 1..Len(t) : t[i].pid # NULL
        /\ \A i, j \in 1..Len(t) : t[i].pid = t[j].pid => i = j

\* C1 witness: the batch had a row without key and a row whose key was in
\* production already, and a non-empty table came back.
C1_Witness ==
    /\ upc = "once" /\ ~new_table.raised /\ ~clean_data.isNone
    /\ RowsOf(clean_data.rows, NULL) # {}
    /\ \E k \in Keys : RowsOf(clean_data.rows, k) # {} /\ RowsOf(db_table, k) # {}
    /\ Len(new_table.rows) > 0

\* C2: with replace_vals = False the first occurrence after concatenation
\* wins: a key held by production comes back once, with the production row
\* (production v = 1 against new v = 2 gives v = 1); a key held by the batch
\* only comes back once, with the first batch row of that key.
C2_FirstOccurrenceWins ==
    (upc = "once" /\ ~replace_vals /\ ~clean_data.isNone) =>
        \A k \in Keys :
            /\ RowsOf(db_table, k) # {} =>
                  /\ Cardinality(RowsOf(new_table.rows, k)) = 1
                  /\ FirstOf(new_table.rows, k) = FirstOf(db_table, k)
            /\ (RowsOf(db_table, k) = {} /\ RowsOf(clean_data.rows, k) # {}) =>
                  /\ Cardinality(RowsOf(new_table.rows, k)) = 1
                  /\ FirstOf(new_table.rows, k) = FirstOf(clean_data.rows, k)

\* C2 witness: production {pk X, v 1}, new {pk X, v 2}, replace_vals False.
C2_Witness ==
    /\ upc = "once" /\ ~replace_vals /\ ~clean_data.isNone
    /\ \E k \in Keys :
          /\ \E i \in RowsOf(db_table, k) : db_table[i].v = 1
          /\ \E j \in RowsOf(clean_data.rows, k) : clean_data.rows[j].v = 2
          /\ \E i \in RowsOf(new_table.rows, k) : new_table.rows[i].v = 1

\* C3: with replace_vals = True a production row whose key is in the batch
\* is replaced by the (first) batch row of that key, and a production row
\* whose key is not in the batch comes back unchanged.
C3_ReplaceNewWins ==
    (upc = "once" /\ replace_vals /\ ~new_table.raised) =>
        \A k \in Keys : RowsOf(db_table, k) # {} =>
            /\ Cardinality(RowsOf(new_table.rows, k)) = 1
            /\ FirstOf(new_table.rows, k) =
                 IF RowsOf(clean_data.rows, k) # {}
                 THEN FirstOf(clean_data.rows, k)
                 ELSE FirstOf(db_table, k)

\* C3 witness: one production row is overwritten with another value while a
\* second production row, absent from the batch, is kept.
C3_Witness ==
    /\ upc = "once" /\ replace_vals /\ ~new_table.raised
    /\ \E k \in Keys :
          /\ RowsOf(db_table, k) # {} /\ RowsOf(clean_data.rows, k) # {}
          /\ FirstOf(db_table, k).v # FirstOf(clean_data.rows, k).v
          /\ FirstOf(new_table.rows, k).v = FirstOf(clean_data.rows, k).v
    /\ \E k \in Keys :
          /\ RowsOf(db_table, k) # {} /\ RowsOf(clean_data.rows, k) = {}
          /\ RowsOf(new_table.rows, k) # {}

\* C4: merging the same batch into the table the first merge returned gives
\* that table again, for both values of replace_vals.
C4_Idempotent ==
    upc = "twice" => again = new_table

\* C4 witness: the second merge ran with a batch that both overlaps the
\* production table and adds a key to it.
C4_Witness ==
    /\ upc = "twice" /\ ~clean_data.isNone
    /\ \E k \in Keys : RowsOf(db_table, k) # {} /\ RowsOf(clean_data.rows, k) # {}
    /\ \E k \in Keys : RowsOf(db_table, k) = {} /\ RowsOf(again.rows, k) # {}

\* the production table once update_table is over: a call that raised has
\* written nothing
TableAfter == IF new_table.raised THEN db_table ELSE new_table.rows

\* C5: every key of the production table is still in the table after
\* update_table, and with replace_vals = False with the row it had; an empty
\* or missing batch is included.
C5_NoHistoricalRowLost ==
    upc = "once" =>
        \A i \in 1..Len(db_table) :
            /\ RowsOf(TableAfter, db_table[i].pid) # {}
            /\ ~replace_vals => FirstOf(TableAfter, db_table[i].pid) = db_table[i]

\* C5 witness: a missing (None) batch was merged into a non-empty table.
C5_Witness ==
    /\ upc = "once" /\ clean_data.isNone /\ ~replace_vals
    /\ Len(db_table) = MaxRows /\ Len(new_table.rows) = MaxRows

\* --------------------------------------------------- claims on the steps
\* the values of a list
Values(list) == {list[i] : i \in 1..Len(list)}

\* the entity whose step has just been logged as completed
JustCompleted(n) ==
    /\ pc = "loop" /\ Len(log) > 0
    /\ log[Len(log)] = Log("Completed step", n)

\* C6: after an entity step that completed with every operation going well
\* (clean_save_update_data, then upload_clean_data), the entity's index entry
\* holds the whole primary-key set of the entity, the ids known before and
\* the ids of the batch, and the reference date of the batch.
C6_IndexHoldsFullKeySet ==
    \A n \in StepNames :
        (JustCompleted(n) /\ faults = 0) =>
            /\ Values(db_dict[n].ids) = Values(column(prod[n], name_to_primary(n)))
            /\ Values(InstalledIndex[n].ids) \subseteq Values(db_dict[n].ids)
            /\ db_dict[n].update = step_date(n)

\* inside clean_save_update_data or after it, the cleaning, the merge or the
\* save of the production table has failed: clean_data raised or returned
\* None, or save_data did not write the merged table
CleaningFailed ==
    /\ pc \in {"confirm_backup", "backup_table", "confirm_update", "update_table",
               "update_db_dict", "upload_clean_data", "check_table_constraints",
               "upload_to_db", "upload_update_db_dict"}
    /\ \/ clean_data.isNone
       \/ "upsert" \in ops /\ "persist" \notin ops

\* C7: once cleaning, merging or saving the production table has failed in a
\* step, nothing of the step is committed to the database and the index
\* entry of the entity (date and ids) stays what it was.
C7_FailedCleanLeavesIndex ==
    [][CleaningFailed => (db_dict' = db_dict /\ sql' = sql)]_vars

\* upload_to_db has returned without committing the rows
CommitFailed == pc = "upload_update_db_dict" /\ "commit" \notin ops

\* C8: after a failed commit the step ends as failed, logged as an error
\* and not as completed, the index is not updated, and the loop goes to the
\* next step.
C8_FailedCommitFailsStep ==
    [][CommitFailed =>
          /\ db_dict' = db_dict
          /\ log' = Append(log, Log("Error in step", name))
          /\ idx' = idx + 1 /\ pc' = "loop"]_vars

\* C9: the index entry is written only once the merged table has been
\* persisted, the batch has passed the constraint check and the rows have
\* been committed to the store, in this step.
C9_IndexWrittenLast ==
    [][db_dict' # db_dict => {"persist", "gate", "commit"} \subseteq ops]_vars

\* C10: every row check_table_constraints returns carries, in the foreign
\* key column its create-table query declares, a value that is among the
\* ids of the referenced entity in the index.
C10_GateSound ==
    (pc = "upload_to_db" /\ ForeignKeyDecl[name] # <<>>) =>
        \A i \in 1..Len(data) :
            isin(data[i][ForeignKeyDecl[name][1]],
                 db_dict[ForeignKeyDecl[name][2]].ids)

\* C11: the rows check_table_constraints returns are exactly the rows of the
\* batch that are not in the table yet and whose foreign key value is among
\* the ids of the referenced entity: a row is removed by the foreign key
\* filter if and only if a foreign key value of it is unknown.
C11_GateFiltersExactly ==
    (pc = "upload_to_db" /\ ForeignKeyDecl[name] # <<>>) =>
        data = SelectSeq(batch_file[name].rows, LAMBDA r :
                   /\ ~isin(r[name_to_primary(name)],
                            column(sql[name], name_to_primary(name)))
                   /\ isin(r[ForeignKeyDecl[name][1]],
                           db_dict[ForeignKeyDecl[name][2]].ids))

\* ----------------------------------------------- claims on run_workflow
\* what run_workflow itself has logged
StepLog ==
    SelectSeq(log, LAMBDA e :
        e.msg \in {"Starting step", "Completed step", "Error in step"})

\* the position of a name in a list of names
Pos(order, n) == CHOOSE i \in 1..Len(order) : order[i] = n

\* the steps are started and ended strictly in turn, each one the successor
\* in the order of the one before it; a run from the top starts with the
\* first
Sequential(order) ==
    \A i \in 1..Len(StepLog) :
        /\ StepLog[i].name \in {order[k] : k \in 1..Len(order)}
        /\ i % 2 = 1 => StepLog[i].msg = "Starting step"
        /\ i % 2 = 0 => /\ StepLog[i].msg \in {"Completed step", "Error in step"}
                        /\ StepLog[i].name = StepLog[i-1].name
        /\ (i = 1 /\ start_from = NoStart) => StepLog[i].name = order[1]
        /\ (i % 2 = 1 /\ i >= 3) =>
               Pos(order, StepLog[i].name) = Pos(order, StepLog[i-2].name) + 1

StartIndex == IF start_from \in StepNames THEN Pos(steps, start_from) ELSE 1

\* run_workflow has logged the end of the step of entity n in this run
Ended(n) ==
    \E i \in 1..Len(log) :
        log[i].name = n /\ log[i].msg \in {"Completed step", "Error in step"}

\* C13: when the batch of a child entity is checked against its foreign
\* key, the step of the referenced parent entity has ended in this run and
\* the ids of the parent's batch are in the parent's index entry (a parent
\* whose step lies before the step the run started from is not asked for).
C13_ParentFinishedBeforeChildGate ==
    (/\ pc = "check_table_constraints" /\ Len(data) > 0
     /\ ForeignKeyDecl[name] # <<>>
     /\ ForeignKeyDecl[name][2] \in StepNames
     /\ Pos(steps, ForeignKeyDecl[name][2]) >= StartIndex) =>
        LET parent == ForeignKeyDecl[name][2]
        IN  /\ Ended(parent)
            /\ batch_file[parent].exists
            /\ Values(column(batch_file[parent].rows, name_to_primary(parent)))
                  \subseteq Values(db_dict[parent].ids)

\* C14: of the match records of a batch that are not in the table yet, the
\* constraint check lets through those whose team id is among the ids of
\* the teams entry of the index, and rejects those whose team id is not.
C14_MatchNeedsKnownTeam ==
    (pc = "upload_to_db" /\ name = "matches") =>
        \A i \in 1..Len(batch_file["matches"].rows) :
            LET r == batch_file["matches"].rows[i]
            IN  ~isin(r.match_id, column(sql["matches"], "match_id")) =>
                  (isin(r, data) <=> isin(r.home_team_id, db_dict["teams"].ids))

\* C15: run_workflow does not end before every step that follows a step
\* whose function raised has been started, in list order.
C15_FailureDoesNotAbort ==
    pc = "finished" =>
        \A i \in 1..Len(StepLog) : StepLog[i].msg = "Error in step" =>
            \A j \in (Pos(steps, StepLog[i].name) + 1)..Len(steps) :
                LET k == i + 2 * (j - Pos(steps, StepLog[i].name)) - 1
                IN  k <= Len(StepLog) /\ StepLog[k] = Log("Starting step", steps[j])

\* C15 witness: the first step of the list raised and the last one was run.
C15_Witness ==
    /\ pc = "finished" /\ Len(StepLog) = 2 * Len(steps)
    /\ StepLog[2] = Log("Error in step", steps[1])
    /\ StepLog[Len(StepLog) - 1] = Log("Starting step", steps[Len(steps)])

\* the names of the steps run_workflow has started
Started == {StepLog[i].name : i \in {k \in 1..Len(StepLog) :
                                          StepLog[k].msg = "Starting step"}}

\* C16: run_workflow(start_from = S) for a step name S starts no step that
\* precedes S in the list, and when it ends it has started S and every
\* step after S.
C16_StartFromRunsSuffix ==
    start_from \in StepNames =>
        /\ \A n \in Started : Pos(steps, n) >= Pos(steps, start_from)
        /\ pc = "finished" =>
              Started = {steps[i] : i \in Pos(steps, start_from)..Len(steps)}

\* C16 witness: a run from teams has ended, and players was among its steps.
C16_Witness ==
    /\ pc = "finished" /\ start_from = "teams"
    /\ "players" \in Started /\ "tls" \notin Started

\* C18: run_workflow logs a step as completed only if, in that step, the
\* batch was cleaned, the merged table persisted, the index written, the
\* batch checked and the rows committed (a step the operator cancelled at
\* a prompt, before the merge, is not asked for).
C18_CompletedOnlyAfterSuccess ==
    [][(/\ Len(log') = Len(log) + 1
        /\ log'[Len(log')].msg = "Completed step"
        /\ "upsert" \in ops) =>
          /\ ~clean_data.isNone
          /\ {"persist", "cleaner_index", "gate", "commit"} \subseteq ops]_vars

\* ------------------------------------------------- claims on the restart
\* the times run_workflow has logged the step of entity n as completed
Completions(n) ==
    Cardinality({i \in 1..Len(log) : log[i] = Log("Completed step", n)})

\* C17: when a step that completed in the run before completes again for
\* the same batch, every operation having gone well in both runs, the
\* production table, the database table and the ids of the entity in the
\* index are what the run before left.
C17_RestartIdempotent ==
    \A n \in StepNames :
        (/\ runs = 2 /\ faults = 0
         /\ JustCompleted(n) /\ Completions(n) = 2
         /\ batch_file[n] = first.batch_file[n]) =>
            /\ prod[n] = first.prod[n]
            /\ sql[n] = first.sql[n]
            /\ Values(db_dict[n].ids) = Values(first.db_dict[n].ids)

\* -------------------------------------------- claims on the reconciliation
\* the rows of a stat table whose key is k
StatRowsOf(t, k) == {i \in 1..Len(t) : t[i].player_match = k}

\* the row of key k that deduplication keeps: the first one
StatFirstOf(t, k) ==
    t[CHOOSE i \in StatRowsOf(t, k) : \A j \in StatRowsOf(t, k) : i <= j]

\* concat_clean_save_all_match_stats has returned a table
Reconciled == upc = "reconciled" /\ ~new_match_stats_clean.raised

\* C19: for every key of the primary table whose row (the first of that
\* key, which deduplication keeps) has a value in the review column
\* minutes, the output row of that key carries this value, whatever the
\* other stat tables hold for the key.
C19_FillOnly ==
    Reconciled =>
        \A k \in StatKeys :
            (/\ StatRowsOf(dfs.summary, k) # {}
             /\ StatFirstOf(dfs.summary, k).minutes # NULL) =>
                /\ StatRowsOf(new_match_stats_clean.rows, k) # {}
                /\ \A i \in StatRowsOf(new_match_stats_clean.rows, k) :
                       new_match_stats_clean.rows[i].minutes =
                           StatFirstOf(dfs.summary, k).minutes

\* C19 witness: the primary table has minutes 1 for a key for which another
\* table has minutes 2, and the output has 1.
C19_Witness ==
    /\ Reconciled
    /\ \E k \in StatKeys :
          /\ StatRowsOf(dfs.summary, k) # {} /\ StatRowsOf(dfs.passing, k) # {}
          /\ StatFirstOf(dfs.summary, k).minutes = 1
          /\ StatFirstOf(dfs.passing, k).minutes = 2
          /\ StatFirstOf(new_match_stats_clean.rows, k).minutes = 1

\* C20: every non-null key of the primary table is the key of exactly one
\* row of the output, whether or not another stat table has a row of it.
C20_PrimaryKeysOnce ==
    Reconciled =>
        \A k \in StatKeys : StatRowsOf(dfs.summary, k) # {} =>
            Cardinality(StatRowsOf(new_match_stats_clean.rows, k)) = 1

\* C20 witness: the primary table holds a key twice that another table
\* holds too, and a key no other table holds; both are in the output.
C20_Witness ==
    /\ Reconciled
    /\ \E k \in StatKeys :
          /\ Cardinality(StatRowsOf(dfs.summary, k)) = 1
          /\ StatRowsOf(dfs.passing, k) = {} /\ StatRowsOf(dfs.defense, k) = {}
          /\ StatRowsOf(new_match_stats_clean.rows, k) # {}
    /\ Len(dfs.passing) > 0 /\ Len(dfs.defense) > 0

\* the rows of a table whose key column on holds k, and the first of them,
\* which deduplication keeps
KeyRowsOf(t, on, k) == {i \in 1..Len(t) : t[i][on] = k}

KeyFirstOf(t, on, k) ==
    t[CHOOSE i \in KeyRowsOf(t, on, k) : \A j \in KeyRowsOf(t, on, k) : i <= j]

\* concat_clean_save_all_match_stats of the cleaner of entity n is over
ReconcileOver(n) == upc = "reconciled" /\ steps[idx] = n

\* C21: for the review column xg of the team matches, which the other stat
\* table holds, and every primary row without xg whose key the other table
\* holds, the output has a row of that key and it carries the other
\* table's xg, although the review column poss is in no other table.
C21_FillEachReviewColumn ==
    ReconcileOver("team_matches") =>
        \A k \in StatKeys :
            (/\ KeyRowsOf(dfs.schedule, "team_match", k) # {}
             /\ KeyFirstOf(dfs.schedule, "team_match", k).xg = NULL
             /\ KeyRowsOf(dfs.shooting, "team_match", k) # {}) =>
                /\ ~new_match_stats_clean.raised
                /\ KeyRowsOf(new_match_stats_clean.rows, "team_match", k) # {}
                /\ \A i \in KeyRowsOf(new_match_stats_clean.rows, "team_match", k) :
                       new_match_stats_clean.rows[i].xg =
                           KeyFirstOf(dfs.shooting, "team_match", k).xg

\* C22: the left join of the primary table with the merged other tables
\* gives no column in two (suffixed) copies: every review column has been
\* removed from the merged other tables before it.
C22_NoColumnTwice ==
    upc = "reconciled" => new_match_stats_clean.suffixed = {}

\* ---------------------------------------------- claims on the raw batch
\* a table of the match does not parse
FailsToParse(raw_match) ==
    \E t \in DOMAIN raw_match : \E st \in DOMAIN raw_match[t] : ~raw_match[t][st]

\* C23: a match one of whose tables does not parse is on the list of bad
\* matches and has no row in the combined table of any stat, and every
\* other match of the batch has the rows of all its teams in the combined
\* table of every stat.
C23_BadItemExcluded ==
    upc = "parsed" =>
        \A m \in 1..Len(new_player_matches_dict) :
            \A st \in DOMAIN parsed.combined :
                LET rows == SelectSeq(parsed.combined[st], LAMBDA r : r.match_id = m)
                IN  IF FailsToParse(new_player_matches_dict[m])
                    THEN isin(m, parsed.bad_matches) /\ rows = <<>>
                    ELSE ~isin(m, parsed.bad_matches) /\ Len(rows) = Len(raw_teams)

C25_NullConstituentDropped ==
    upc = "ptls_cleaned" =>
        \A i \in 1..Len(clean_data.rows) :
            /\ clean_data.rows[i].pid # json_null
            /\ ~contains(clean_data.rows[i].ptls_id, <<"N", "o", "n", "e">>)

\* ----------------------------------------------- claims on the configuration
\* C26: when the create-table query or the primary key of an entity is
\* missing from the configuration, run_workflow starts no step, and no
\* production table and no entry of the index is modified.
C26_BadConfigFatalAtStartup ==
    bad_config # NoBadConfig =>
        /\ Started = {}
        /\ prod = Installed
        /\ db_dict = InstalledIndex

\* ------------------------------------------------ claims on a step's frame
\* inside upload_clean_data of a step whose batch was cleaned and whose
\* operator did not answer yes at a prompt of clean_save_update_data (the
\* production table was not merged)
Cancelled ==
    /\ pc \in {"upload_clean_data", "check_table_constraints", "upload_to_db",
               "upload_update_db_dict"}
    /\ ~clean_data.isNone
    /\ "upsert" \notin ops

\* C27: once the operator has cancelled at a prompt, the step stops: the
\* production tables, the database tables and the index are not modified
\* in the rest of the step.
C27_CancelStopsStep ==
    [][Cancelled => (prod' = prod /\ sql' = sql /\ db_dict' = db_dict)]_vars

\* C28: a step of entity E leaves the batch file, the production table, the
\* database table and the index entry of every other entity as they are.
C28_StepWritesOwnEntityOnly ==
    [][pc \notin {"run_workflow", "loop", "finished", "idle"} =>
          \A n \in Entities \ {name} :
              /\ batch_file'[n] = batch_file[n]
              /\ prod'[n] = prod[n]
              /\ sql'[n] = sql[n]
              /\ db_dict'[n] = db_dict[n]]_vars

\* ------------------------------------- claims on an unknown start_from
\* start_from is given and is the name of no step
UnknownStart == start_from # NoStart /\ start_from \notin StepNames

\* C29: run_workflow with a start_from that is the name of no step starts
\* with the first step of the list, and when it ends it has run every step
\* once, as a run without start_from does.
C29_UnknownStartRunsAll ==
    UnknownStart =>
        /\ Len(StepLog) > 0 => StepLog[1] = Log("Starting step", steps[1])
        /\ pc = "finished" =>
              /\ Started = StepNames
              /\ Len(StepLog) = 2 * Len(steps)

\* C29 witness: a run with start_from = "leagues" has ended after all ten
\* steps, seasons being the first.
C29_Witness ==
    /\ UnknownStart /\ pc = "finished"
    /\ StepLog[1] = Log("Starting step", "seasons")
    /\ StepLog[Len(StepLog) - 1] = Log("Starting step", "keeper_matches")

\* ------------------------------------------- claims on the league seasons
\* C30: the cleaned batch of league seasons has no row whose lg_start is
\* after new_match_reference_date, and it has a row for every new league
\* season whose lg_start is on or before that date.
C30_NotStartedExcluded ==
    upc = "ls_cleaned" =>
        /\ \A i \in 1..Len(clean_data.rows) :
               ~later(clean_data.rows[i].lg_start, new_match_reference_date)
        /\ \A i \in 1..Len(ls_new) :
               ~later(ls_new[i].lg_start, new_match_reference_date) =>
                   isin(derive_key(ls_new[i].lg_id, ls_new[i].season),
                        column(clean_data.rows, "ls_id"))

====
